---- MODULE Spec2Model ----
(***************************************************************************)
(* Model of the session/response orchestration core of search4all.py:     *)
(* the KVWrapper store, the marker-delimited transcript codec             *)
(* (extract_all_sections / _raw_stream_response) and the /query handler   *)
(* (query_function) with its streaming generator and its persistence      *)
(* jobs on the thread pool.                                                *)
(*                                                                         *)
(* Text is a sequence of symbols.  Every character that matters to the    *)
(* code is a symbol of its own: "nl" and "sp" are whitespace characters,  *)
(* M1 and M2 are the two marker literals, "[INST]" and "[/INST]" are the  *)
(* instruction delimiters; the remaining symbols are ordinary text.       *)
(* Python values are tagged records ([t |-> "None"], [t |-> "str", ...]). *)
(***************************************************************************)
EXTENDS Naturals, Sequences, FiniteSets, TLC

VARIABLES
    cfg,        \* _app.state: should_do_chat_history, should_do_related_questions, model protocol
    db,         \* KVWrapper._db: key -> stored value
    req,        \* the request in hand: the locals of query_function and of its generator
    started,    \* number of requests received so far
    quota,      \* number of requests the behaviour may receive
    pending,    \* ThreadPoolExecutor work queue (jobs submitted, not yet picked up)
    worker,     \* ThreadPoolExecutor threads: the job each one runs and where it stands
    access,     \* history variable: <<search_uuid, key>> for every store key a request used
    appended,   \* KV driver: number of append calls issued
    cin,        \* codec driver: the (contexts, answer tokens, related) being encoded
    ctext,      \* codec driver: the encoded stream
    cout,       \* codec driver: the decoded sections
    cpc         \* codec driver: position

vars == <<cfg, db, req, started, quota, pending, worker, access, appended, cin, ctext, cout, cpc>>

mainVars  == <<cfg, req, started, quota, access>>
poolVars  == <<pending, worker>>
codecVars == <<cin, ctext, cout, cpc>>

---------------------------------------------------------------------------
(* Bounds of the model *)

MaxRequests == 1     \* requests received in one behaviour
MaxWorkers  == 1     \* pool threads of the single-request specifications
MaxAppends  == 12    \* append calls issued by the KV driver
MaxTokens   == 1     \* answer tokens of one generation
MaxTextLen  == 3     \* length of the raw texts handed to the decoder
MaxSubmits  == 2     \* append jobs submitted by the concurrent KV driver
MaxContexts == 3     \* context items handed to the prompt driver

(* Program constants *)

MAX_HISTORY_LEN == 10

M1 == "__LLM_RESPONSE__"
M2 == "__RELATED_QUESTIONS__"

---------------------------------------------------------------------------
(* Python values *)

None == [t |-> "None"]
PyStr(s) == [t |-> "str", v |-> s]
PyList(l) == [t |-> "list", v |-> l]
Unbound == [t |-> "unbound"]        \* a local that was never assigned

\* Python truthiness of the values the handler tests
Truthy(x) ==
    CASE x.t = "None" -> FALSE
      [] x.t = "unbound" -> FALSE
      [] x.t = "str" -> x.v # <<>>
      [] x.t = "list" -> x.v # <<>>
      [] OTHER -> TRUE

---------------------------------------------------------------------------
(* Text helpers *)

IsSpace(c) == c \in {"nl", "sp"}

RECURSIVE LStrip(_)
LStrip(s) == IF s # <<>> /\ IsSpace(Head(s)) THEN LStrip(Tail(s)) ELSE s

RECURSIVE RStrip(_)
RStrip(s) ==
    IF s # <<>> /\ IsSpace(s[Len(s)]) THEN RStrip(SubSeq(s, 1, Len(s) - 1)) ELSE s

\* str.strip()
Strip(s) == RStrip(LStrip(s))

\* "".join(chunks)
RECURSIVE Join(_)
Join(chunks) == IF chunks = <<>> THEN <<>> ELSE Head(chunks) \o Join(Tail(chunks))

\* first index i >= from with s[i] = c, 0 when there is none
RECURSIVE Find(_, _, _)
Find(s, c, from) ==
    IF from > Len(s) THEN 0
    ELSE IF s[from] = c THEN from
    ELSE Find(s, c, from + 1)

Contains(s, c) == Find(s, c, 1) # 0

---------------------------------------------------------------------------
(* json.dumps / json.loads on the values the handler serialises: a list of
   context objects, a list of question objects, or None.  A context is
   reduced to its snippet (name and url are never read by the handler); the
   symbol "snippet:" stands for the characters "snippet": of the object. *)

JSONDecodeError == [t |-> "JSONDecodeError"]

RECURSIVE JsonEscape(_)
JsonEscape(s) ==
    IF s = <<>> THEN <<>>
    ELSE <<(IF Head(s) = "nl" THEN "\\n" ELSE Head(s))>> \o JsonEscape(Tail(s))

RECURSIVE JsonUnescape(_)
JsonUnescape(s) ==
    IF s = <<>> THEN <<>>
    ELSE <<(IF Head(s) = "\\n" THEN "nl" ELSE Head(s))>> \o JsonUnescape(Tail(s))

JsonString(s) == <<"dq">> \o JsonEscape(s) \o <<"dq">>

JsonObject(e) ==
    IF "snippet" \in DOMAIN e
    THEN <<"{", "snippet:">> \o JsonString(e.snippet) \o <<"}">>
    ELSE <<"{", "question:">> \o JsonString(e.question) \o <<"}">>

RECURSIVE JsonItems(_)
JsonItems(l) ==
    IF l = <<>> THEN <<>>
    ELSE IF Len(l) = 1 THEN JsonObject(l[1])
    ELSE JsonObject(l[1]) \o <<",", "sp">> \o JsonItems(Tail(l))

json_dumps(x) ==
    IF x.t = "None" THEN <<"null">> ELSE <<"[">> \o JsonItems(x.v) \o <<"]">>

\* one object starting at s[i]: [ok, v, next]
ParseObject(s, i) ==
    LET j == Find(s, "dq", i + 3)
    IN IF /\ i + 4 <= Len(s)
          /\ s[i] = "{"
          /\ s[i + 1] \in {"snippet:", "question:"}
          /\ s[i + 2] = "dq"
          /\ j # 0
          /\ j + 1 <= Len(s)
          /\ s[j + 1] = "}"
       THEN [ok |-> TRUE,
             v |-> IF s[i + 1] = "snippet:"
                   THEN [snippet |-> JsonUnescape(SubSeq(s, i + 3, j - 1))]
                   ELSE [question |-> JsonUnescape(SubSeq(s, i + 3, j - 1))],
             next |-> j + 2]
       ELSE [ok |-> FALSE, v |-> <<>>, next |-> 0]

\* the objects from s[i] up to the closing bracket: [ok, v]
RECURSIVE ParseItems(_, _)
ParseItems(s, i) ==
    LET o == ParseObject(s, i)
    IN IF ~o.ok THEN [ok |-> FALSE, v |-> <<>>]
       ELSE IF o.next = Len(s) /\ s[o.next] = "]" THEN [ok |-> TRUE, v |-> <<o.v>>]
       ELSE IF o.next + 2 <= Len(s) /\ s[o.next] = "," /\ s[o.next + 1] = "sp"
       THEN LET r == ParseItems(s, o.next + 2)
            IN [ok |-> r.ok, v |-> <<o.v>> \o r.v]
       ELSE [ok |-> FALSE, v |-> <<>>]

json_loads(s) ==
    IF s = <<"null">> THEN None
    ELSE IF s = <<"[", "]">> THEN PyList(<<>>)
    ELSE IF Len(s) >= 2 /\ s[1] = "["
    THEN LET r == ParseItems(s, 2)
         IN IF r.ok THEN PyList(r.v) ELSE JSONDecodeError
    ELSE JSONDecodeError

---------------------------------------------------------------------------
(* The transcript codec *)

MARKER1_CHUNK == <<"nl", "nl", M1, "nl", "nl">>
MARKER2_CHUNK == <<"nl", "nl", M2, "nl", "nl">>
\* the disclaimer sentence followed by "\n\n"
WARNING_CHUNK ==
    <<"(The search engine returned nothing for this query. Please take the answer with a grain of salt.)",
      "nl", "nl">>

AllNone == [search_results |-> None, llm_response |-> None, related_questions |-> None]

\* variant: a text without the first marker is still split at the second one
extract_split_without_first_marker(text) ==
    LET j == Find(text, M2, 1)
    IN IF Find(text, M1, 1) = 0 /\ j # 0
       THEN [search_results |-> PyStr(Strip(SubSeq(text, 1, j - 1))),
             llm_response |-> None,
             related_questions |-> PyStr(Strip(SubSeq(text, j + 1, Len(text))))]
       ELSE AllNone

\* variant: a missing related-questions group decodes to None
extract_absent_related_is_none(text) ==
    LET i == Find(text, M1, 1)
        rest == SubSeq(text, i + 1, Len(text))
        j == Find(rest, M2, 1)
    IN IF i = 0 THEN AllNone
       ELSE [search_results |-> PyStr(Strip(SubSeq(text, 1, i - 1))),
             llm_response |-> PyStr(Strip(IF j # 0 THEN SubSeq(rest, 1, j - 1) ELSE rest)),
             related_questions |-> IF j # 0 THEN PyStr(Strip(SubSeq(rest, j + 1, Len(rest))))
                                   ELSE None]

\* variant: the answer group is greedy, (.*) instead of (.*?)
extract_greedy_answer(text) ==
    LET i == Find(text, M1, 1)
    IN IF i = 0 THEN AllNone
       ELSE [search_results |-> PyStr(Strip(SubSeq(text, 1, i - 1))),
             llm_response |-> PyStr(Strip(SubSeq(text, i + 1, Len(text)))),
             related_questions |-> PyStr(<<>>)]

\* re.search(r"(.*?)__LLM_RESPONSE__(.*?)(__RELATED_QUESTIONS__(.*))?$", text, re.DOTALL)
\* group 1 stops at the first M1; group 2 is lazy and stops at the first
\* position where M2 starts or where $ matches (the end of the text, or just
\* before a final newline); group 4 is everything after that M2.
extract_all_sections(text) ==
    LET i == Find(text, M1, 1)
        rest == SubSeq(text, i + 1, Len(text))
        j == Find(rest, M2, 1)
        g1 == SubSeq(text, 1, i - 1)
        g2 == IF j # 0 THEN SubSeq(rest, 1, j - 1)
              ELSE IF rest # <<>> /\ rest[Len(rest)] = "nl"
              THEN SubSeq(rest, 1, Len(rest) - 1)
              ELSE rest
        g4 == IF j # 0 THEN PyStr(SubSeq(rest, j + 1, Len(rest))) ELSE None
    IN IF i = 0 THEN AllNone
       ELSE [search_results |-> PyStr(Strip(g1)),
             llm_response |-> PyStr(Strip(g2)),
             related_questions |-> IF Truthy(g4) THEN PyStr(Strip(g4.v)) ELSE PyStr(<<>>)]

\* the chunks _raw_stream_response yields, in order; tokens are the texts the
\* generation stream produced, rq the awaited result of the related-questions
\* future (Unbound when related_questions_future is None)
RawStreamChunks(contexts, tokens, rq) ==
    <<json_dumps(contexts), MARKER1_CHUNK>>
    \o (IF ~Truthy(contexts) THEN <<WARNING_CHUNK>> ELSE <<>>)
    \o tokens
    \o (IF rq.t # "unbound" THEN <<MARKER2_CHUNK, json_dumps(rq)>> ELSE <<>>)

---------------------------------------------------------------------------
(* KVWrapper over SqliteDict.  Every single read or write of self._db is
   atomic (SqliteDict funnels them through one connection thread); a method
   that makes several of them is not. *)

Missing  == [t |-> "missing"]
KeyError == [t |-> "KeyError"]
\* a stored row that cannot be read back, and the error reading it raises
Corrupt    == [t |-> "corrupt"]
StoreError == [t |-> "Exception"]

SessionIds == {"s", "s_history"}

HistoryKey(search_uuid) == search_uuid \o "_history"

Keys == SessionIds \cup {HistoryKey(u) : u \in SessionIds}

\* KVWrapper.get
kv_get(d, key) ==
    IF d[key] = Corrupt THEN StoreError
    ELSE IF d[key] = Missing \/ d[key] = None THEN KeyError ELSE d[key]

\* the lookup raised: except KeyError / except Exception (lines 824-831, 868-876)
LookupFailed(got) == got \in {KeyError, StoreError}

\* self._db[key] = value
kv_set(d, key, value) == [d EXCEPT ![key] = value]

\* self._db.get(key, [])
db_get_default(d, key) == IF d[key] = Missing THEN PyList(<<>>) ELSE d[key]

\* l[-MAX_HISTORY_LEN:]
LastN(l, n) == IF Len(l) <= n THEN l ELSE SubSeq(l, Len(l) - n + 1, Len(l))

\* _ = self._db[key][-MAX_HISTORY_LEN:]; _.append(value)
append_window(cur, value) == PyList(Append(LastN(cur.v, MAX_HISTORY_LEN), value))

---------------------------------------------------------------------------
(* The thread pool (_app.state.executor): submit() puts a job on the work
   queue, an idle thread takes the oldest job and runs it. *)

\* the threads of the pool, fixed when the pool is created
Workers == DOMAIN worker

Idle == [pc |-> "idle"]

\* ThreadPoolExecutor(max_workers = k) with every thread idle
Pool(k) == [w \in 1..k |-> Idle]

Job(op, key, value, by) == [op |-> op, key |-> key, value |-> value, by |-> by]

\* a pool thread takes the next job
WorkerTake(w) ==
    /\ worker[w] = Idle
    /\ \A v \in Workers : v < w => worker[v] # Idle
    /\ pending # <<>>
    /\ LET j == Head(pending)
       IN worker' = [worker EXCEPT ![w] =
                        [pc |-> IF j.op = "put" THEN "put" ELSE "a1",
                         job |-> j, local |-> None]]
    /\ pending' = Tail(pending)
    /\ UNCHANGED <<db, mainVars, appended, codecVars>>

\* variant: the put updates the query of a stored record and keeps its txt
PutStepFieldwise(w) ==
    /\ worker[w].pc = "put"
    /\ LET key == worker[w].job.key
       IN db' = IF db[key].t = "dict"
                THEN [db EXCEPT ![key].query = worker[w].job.value.query]
                ELSE kv_set(db, key, worker[w].job.value)
    /\ worker' = [worker EXCEPT ![w] = Idle]
    /\ UNCHANGED <<pending, mainVars, appended, codecVars>>

\* variant: the handler waits for the put and a storage error ends the response
PutStepAwaited(w) ==
    /\ worker[w].pc = "put"
    /\ \E ok \in BOOLEAN :
        /\ db' = IF ok THEN kv_set(db, worker[w].job.key, worker[w].job.value) ELSE db
        /\ req' = IF ok \/ req.pc # "stream" THEN req
                  ELSE [req EXCEPT !.gpc = "crashed", !.pc = "done"]
    /\ worker' = [worker EXCEPT ![w] = Idle]
    /\ UNCHANGED <<pending, cfg, started, quota, access, appended, codecVars>>

\* KVWrapper.put: self._db[key] = value; commit.  A storage error raised by
\* either statement ends the job and leaves the store as it was.
PutStep(w) ==
    /\ worker[w].pc = "put"
    /\ \E ok \in BOOLEAN :
        db' = IF ok THEN kv_set(db, worker[w].job.key, worker[w].job.value) ELSE db
    /\ worker' = [worker EXCEPT ![w] = Idle]
    /\ UNCHANGED <<pending, mainVars, appended, codecVars>>

\* KVWrapper.append, line 121, right-hand side: self._db.get(key, [])
AppendRead(w) ==
    /\ worker[w].pc = "a1"
    /\ worker' = IF db[worker[w].job.key] = Corrupt
                 THEN [worker EXCEPT ![w] = Idle]
                 ELSE [worker EXCEPT ![w].pc = "a2",
                                     ![w].local = db_get_default(db, worker[w].job.key)]
    /\ UNCHANGED <<db, pending, mainVars, appended, codecVars>>

\* KVWrapper.append, line 121, assignment: self._db[key] = ...
AppendStore(w) ==
    /\ worker[w].pc = "a2"
    /\ db' = kv_set(db, worker[w].job.key, worker[w].local)
    /\ worker' = [worker EXCEPT ![w].pc = "a3", ![w].local = None]
    /\ UNCHANGED <<pending, mainVars, appended, codecVars>>

\* KVWrapper.append, lines 123-124: read the window and append to the copy;
\* a stored value that is not a list raises and the job ends
AppendSlice(w) ==
    /\ worker[w].pc = "a3"
    /\ LET cur == db[worker[w].job.key]
       IN worker' = IF cur.t = "list"
                    THEN [worker EXCEPT ![w].pc = "a4",
                                        ![w].local = append_window(cur, worker[w].job.value)]
                    ELSE [worker EXCEPT ![w] = Idle]
    /\ UNCHANGED <<db, pending, mainVars, appended, codecVars>>

\* KVWrapper.append, lines 125-126: self._db[key] = _; commit
AppendWrite(w) ==
    /\ worker[w].pc = "a4"
    /\ db' = kv_set(db, worker[w].job.key, worker[w].local)
    /\ worker' = [worker EXCEPT ![w] = Idle]
    /\ UNCHANGED <<pending, mainVars, appended, codecVars>>

PoolIdle == pending = <<>> /\ \A w \in Workers : worker[w] = Idle

---------------------------------------------------------------------------
(* Values the environment supplies *)

Ctx1 == [snippet |-> <<"c">>]
Ctx2 == [snippet |-> <<"d", "nl">>]
CtxM == [snippet |-> <<M1>>]
Rel1 == [question |-> <<"r">>]

NoConfig == [history |-> FALSE, related |-> FALSE, claude |-> FALSE]
EmptyDb == [k \in Keys |-> Missing]
NotDecoded == [t |-> "pending"]

---------------------------------------------------------------------------
(* The /query handler (query_function) *)

\* "" stands for a search_uuid that was not provided
NoUuid == ""

Configs == [history : BOOLEAN, related : BOOLEAN, claude : BOOLEAN]

QueryInputs  == {None, PyStr(<<"a">>), PyStr(<<"b">>)}
MarkedQueryInputs == {PyStr(<<"[INST]">>), PyStr(<<"[INST]", "a">>)}
UuidInputs   == {NoUuid} \cup SessionIds
SearchError  == [t |-> "HTTPException"]
SearchOutcomes  == {PyList(<<>>), PyList(<<Ctx1>>), SearchError}
AnswerTokens    == {<<"x">>}
RelatedOutcomes == {PyList(<<>>), PyList(<<Rel1>>)}

Dict(query, txt) == [t |-> "dict", query |-> query, txt |-> txt]

Turn(query, search_results, llm_response, related_questions) ==
    [query |-> query, search_results |-> search_results,
     llm_response |-> llm_response, related_questions |-> related_questions]

Message(role, content) == [role |-> role, content |-> content]

\* a store left by earlier runs: session "s" asked "a" and was answered
SeededTranscript == Join(RawStreamChunks(PyList(<<Ctx1>>), << <<"x">> >>, PyList(<<Rel1>>)))
SeededDb ==
    [k \in Keys |->
        IF k = "s" THEN Dict(PyStr(<<"a">>), PyStr(SeededTranscript))
        ELSE IF k = HistoryKey("s")
        THEN PyList(<<Turn(PyStr(<<"a">>), PyList(<<Ctx1>>), PyStr(<<"x">>), PyList(<<Rel1>>))>>)
        ELSE Missing]

InitialStores == {EmptyDb, SeededDb}

NewRequest ==
    [pc |-> "idle",
     query |-> None, search_uuid |-> NoUuid, grq |-> TRUE,
     history |-> PyList(<<>>), result |-> Unbound,
     contexts |-> PyStr(<<>>), chat_history |-> <<>>,
     system_prompt |-> <<>>, messages |-> <<>>,
     rqf |-> "unbound", rq |-> Unbound,
     buf |-> <<>>,            \* all_yielded_results
     delivered |-> <<>>,      \* chunks the caller received
     kinds |-> <<>>,          \* what each delivered chunk is
     gpc |-> "none",          \* position of generate_stream_response
     ntok |-> 0,
     resp |-> "none", body |-> None,
     searches |-> 0, generations |-> 0, related_calls |-> 0,
     submitted |-> FALSE]

\* the service after server_init, about to receive n requests
Service(n) ==
    /\ cfg \in Configs
    /\ db \in InitialStores
    /\ req = NewRequest
    /\ started = 0
    /\ quota = n
    /\ pending = <<>>
    /\ worker = Pool(MaxWorkers)
    /\ access = {}
    /\ appended = 0
    /\ cin = [kind |-> "none"]
    /\ ctext = <<>>
    /\ cout = NotDecoded
    /\ cpc = "unused"

Init == Service(MaxRequests)

\* an exception nobody catches leaves query_function: the framework answers 500
Raise(q) == [q EXCEPT !.pc = "done", !.resp = "exception"]

\* return PlainTextResponse(result["txt"])
Replay(q) == [q EXCEPT !.pc = "done", !.resp = "replay", !.body = q.result.txt]

\* re.sub(r"\[/?INST\]", "", query)
Sanitize(text) == SelectSeq(text, LAMBDA c : c \notin {"[INST]", "[/INST]"})

\* lines 846-851: one user and one assistant message per entry
RECURSIVE Flatten(_)
Flatten(turns) ==
    IF turns = <<>> THEN <<>>
    ELSE <<Message("user", Head(turns).query),
           Message("assistant", Head(turns).llm_response)>> \o Flatten(Tail(turns))

\* variant: the citations are numbered from 0, {i} instead of {i+1}
CitationZeroBased(i) == "[[citation:" \o ToString(i - 1) \o "]]"

Citation(i) == "[[citation:" \o ToString(i) \o "]]"

\* lines 890-895: "\n\n".join(f"[[citation:{i+1}]] {c['snippet']}")
RECURSIVE CitedFrom(_, _)
CitedFrom(ctxs, i) ==
    IF i > Len(ctxs) THEN <<>>
    ELSE <<Citation(i), "sp">> \o ctxs[i].snippet
         \o (IF i < Len(ctxs) THEN <<"nl", "nl">> ELSE <<>>)
         \o CitedFrom(ctxs, i + 1)

SystemPrompt(contexts) == <<"_rag_query_text">> \o CitedFrom(contexts.v, 1)

\* variant: only the query is validated
ReceiveUncheckedUuid ==
    /\ req.pc \in {"idle", "done"}
    /\ started < quota
    /\ started' = started + 1
    /\ \E query \in QueryInputs, search_uuid \in UuidInputs, grq \in BOOLEAN :
        req' = IF ~Truthy(query)
               THEN Raise([NewRequest EXCEPT !.query = query, !.search_uuid = search_uuid])
               ELSE [NewRequest EXCEPT
                        !.query = query, !.search_uuid = search_uuid, !.grq = grq,
                        !.pc = IF search_uuid = NoUuid THEN "search"
                               ELSE IF cfg.history THEN "lookup_history" ELSE "lookup_record"]
    /\ UNCHANGED <<cfg, quota, db, access, poolVars, appended, codecVars>>

\* lines 796-812, 877-878.  A request is received when the response to the
\* previous one is complete: req then holds the locals of the new request,
\* while the jobs of the earlier ones may still be queued or running.
ReceiveFrom(queries) ==
    /\ req.pc \in {"idle", "done"}
    /\ started < quota
    /\ started' = started + 1
    /\ \E query \in queries, search_uuid \in UuidInputs, grq \in BOOLEAN :
        req' = IF ~Truthy(query) \/ search_uuid = NoUuid
               THEN Raise([NewRequest EXCEPT !.query = query, !.search_uuid = search_uuid])
               ELSE [NewRequest EXCEPT
                        !.query = query, !.search_uuid = search_uuid, !.grq = grq,
                        !.pc = IF cfg.history THEN "lookup_history" ELSE "lookup_record"]
    /\ UNCHANGED <<cfg, quota, db, access, poolVars, appended, codecVars>>

Receive == ReceiveFrom(QueryInputs)

\* the same handler reached by callers whose queries carry the markers that
\* line 883 removes
ReceiveMarked == ReceiveFrom(MarkedQueryInputs)

\* lines 833-853, with history and result as the lookups left them
HistoryCheck(q) ==
    IF ~Truthy(q.history) THEN [q EXCEPT !.pc = "search"]
    ELSE IF q.history.t # "list" THEN Raise(q)
    ELSE LET last_entry == q.history.v[Len(q.history.v)]
         IN IF Truthy(last_entry.query) /\ Truthy(last_entry.search_results)
            THEN IF last_entry.query # q.query
                 THEN [q EXCEPT !.contexts = last_entry.search_results,
                                !.chat_history = Flatten(q.history.v),
                                !.pc = "search"]
                 ELSE IF q.result.t = "dict" THEN Replay(q) ELSE Raise(q)
            ELSE [q EXCEPT !.pc = "search"]

\* lines 815-819, 825-831: kv.get(f"{search_uuid}_history")
LookupHistory ==
    /\ req.pc = "lookup_history"
    /\ LET key == HistoryKey(req.search_uuid)
           got == kv_get(db, key)
       IN /\ req' = IF LookupFailed(got) THEN HistoryCheck(req)
                    ELSE [req EXCEPT !.history = got, !.pc = "lookup_record_h"]
          /\ access' = access \cup {<<req.search_uuid, key>>}
    /\ UNCHANGED <<cfg, quota, db, started, poolVars, appended, codecVars>>

\* lines 820-831: kv.get(search_uuid) in history mode
LookupRecordH ==
    /\ req.pc = "lookup_record_h"
    /\ LET key == req.search_uuid
           got == kv_get(db, key)
       IN /\ req' = HistoryCheck(IF LookupFailed(got) THEN req
                                 ELSE [req EXCEPT !.result = got])
          /\ access' = access \cup {<<req.search_uuid, key>>}
    /\ UNCHANGED <<cfg, quota, db, started, poolVars, appended, codecVars>>

\* variant: the comparison of line 863 inverted
LookupRecordInverted ==
    /\ req.pc = "lookup_record"
    /\ LET key == req.search_uuid
           got == kv_get(db, key)
       IN /\ req' = IF LookupFailed(got) THEN [req EXCEPT !.pc = "search"]
                    ELSE IF got.t = "dict" /\ got.query # req.query
                    THEN Replay([req EXCEPT !.result = got])
                    ELSE [req EXCEPT !.result = got, !.pc = "search"]
          /\ access' = access \cup {<<req.search_uuid, key>>}
    /\ UNCHANGED <<cfg, quota, db, started, poolVars, appended, codecVars>>

\* variant: the replayed record is written back to the store
LookupRecordRewriting ==
    /\ req.pc = "lookup_record"
    /\ LET key == req.search_uuid
           got == kv_get(db, key)
           replayed == ~LookupFailed(got) /\ got.t = "dict" /\ got.query = req.query
       IN /\ req' = IF LookupFailed(got) THEN [req EXCEPT !.pc = "search"]
                    ELSE IF replayed THEN Replay([req EXCEPT !.result = got])
                    ELSE [req EXCEPT !.result = got, !.pc = "search"]
          /\ pending' = IF replayed
                        THEN Append(pending, Job("put", key, got, started))
                        ELSE pending
          /\ access' = access \cup {<<req.search_uuid, key>>}
    /\ UNCHANGED <<cfg, quota, db, started, worker, appended, codecVars>>

\* lines 855-876: kv.get(search_uuid) with history mode off
LookupRecord ==
    /\ req.pc = "lookup_record"
    /\ LET key == req.search_uuid
           got == kv_get(db, key)
       IN /\ req' = IF LookupFailed(got) THEN [req EXCEPT !.pc = "search"]
                    ELSE IF got.t = "dict" /\ got.query = req.query
                    THEN Replay([req EXCEPT !.result = got])
                    ELSE [req EXCEPT !.result = got, !.pc = "search"]
          /\ access' = access \cup {<<req.search_uuid, key>>}
    /\ UNCHANGED <<cfg, quota, db, started, poolVars, appended, codecVars>>

\* variant: the search is made whatever the History holds
SearchAlways ==
    /\ req.pc = "search"
    /\ LET query == PyStr(Sanitize(req.query.v))
       IN \E out \in SearchOutcomes :
            req' = IF out = SearchError
                   THEN Raise([req EXCEPT !.query = query, !.searches = @ + 1])
                   ELSE [req EXCEPT !.query = query, !.searches = @ + 1,
                                    !.contexts = out, !.pc = "dispatch"]
    /\ UNCHANGED <<cfg, quota, db, started, access, poolVars, appended, codecVars>>

\* lines 883-888
Search ==
    /\ req.pc = "search"
    /\ LET query == PyStr(Sanitize(req.query.v))
       IN IF ~cfg.history \/ req.contexts \in {PyStr(<<>>), None}
          THEN \E out \in SearchOutcomes :
                req' = IF out = SearchError
                       THEN Raise([req EXCEPT !.query = query, !.searches = @ + 1])
                       ELSE [req EXCEPT !.query = query, !.searches = @ + 1,
                                        !.contexts = out, !.pc = "dispatch"]
          ELSE req' = [req EXCEPT !.query = query, !.pc = "dispatch"]
    /\ UNCHANGED <<cfg, quota, db, started, access, poolVars, appended, codecVars>>

\* variant: the history is put behind the new query
MessagesHistoryLast(q, system_prompt) ==
    IF cfg.claude
    THEN <<Message("user", q.query)>> \o q.chat_history
    ELSE <<Message("system", PyStr(system_prompt)), Message("user", q.query)>>
         \o q.chat_history

\* lines 905-912 and 961-968: the messages sent to the generation backend
Messages(q, system_prompt) ==
    IF cfg.claude
    THEN q.chat_history \o <<Message("user", q.query)>>
    ELSE <<Message("system", PyStr(system_prompt))>>
         \o (IF q.chat_history # <<>> /\ Len(q.chat_history) % 2 = 0
             THEN q.chat_history ELSE <<>>)
         \o <<Message("user", q.query)>>

\* variant: the record is submitted before the backend call is awaited
DispatchPersistingFirst ==
    /\ req.pc = "dispatch"
    /\ LET system_prompt == SystemPrompt(req.contexts)
           ready == [req EXCEPT
                        !.system_prompt = system_prompt,
                        !.rqf = IF cfg.related /\ req.grq THEN "coroutine" ELSE "unbound",
                        !.messages = Messages(req, system_prompt)]
           put == Job("put", req.search_uuid, Dict(req.query, PyStr(<<>>)), started)
       IN IF cfg.claude
          THEN /\ req' = [ready EXCEPT !.pc = "persist"]
               /\ pending' = pending
          ELSE \E ok \in BOOLEAN :
                /\ req' = IF ok
                          THEN [ready EXCEPT !.generations = @ + 1, !.pc = "persist"]
                          ELSE [ready EXCEPT !.generations = @ + 1, !.pc = "done",
                                             !.resp = "error503"]
                /\ pending' = IF ok THEN pending ELSE Append(pending, put)
    /\ UNCHANGED <<cfg, quota, db, started, access, worker, appended, codecVars>>

\* lines 890-991: the prompt, the related-questions coroutine, the messages and,
\* for the OpenAI protocol, the awaited chat.completions.create, whose failure
\* is answered with the 503 JSON body
Dispatch ==
    /\ req.pc = "dispatch"
    /\ LET system_prompt == SystemPrompt(req.contexts)
           ready == [req EXCEPT
                        !.system_prompt = system_prompt,
                        !.rqf = IF cfg.related /\ req.grq THEN "coroutine" ELSE "unbound",
                        !.messages = Messages(req, system_prompt)]
       IN IF cfg.claude
          THEN req' = [ready EXCEPT !.pc = "persist"]
          ELSE \E ok \in BOOLEAN :
                req' = IF ok
                       THEN [ready EXCEPT !.generations = @ + 1, !.pc = "persist"]
                       ELSE [ready EXCEPT !.generations = @ + 1, !.pc = "done",
                                          !.resp = "error503"]
    /\ UNCHANGED <<cfg, quota, db, started, access, poolVars, appended, codecVars>>

\* lines 995-1017: decode what has been yielded so far, submit the append and
\* the put, and hand the generator to StreamingResponse
Persist ==
    /\ req.pc = "persist"
    /\ LET text == Join(req.buf)
           sec == extract_all_sections(text)
           sr == IF Truthy(sec.search_results)
                 THEN json_loads(sec.search_results.v) ELSE sec.search_results
           rq == IF Truthy(sec.related_questions)
                 THEN json_loads(sec.related_questions.v) ELSE sec.related_questions
           put == Job("put", req.search_uuid, Dict(req.query, PyStr(text)), started)
           app == Job("append", HistoryKey(req.search_uuid),
                      Turn(req.query, sr, sec.llm_response, rq), started)
       IN IF cfg.history /\ JSONDecodeError \in {sr, rq}
          THEN /\ req' = Raise(req)
               /\ UNCHANGED <<pending, access>>
          ELSE /\ pending' = pending \o (IF cfg.history THEN <<app>> ELSE <<>>) \o <<put>>
               /\ access' = access
                     \cup (IF cfg.history THEN {<<req.search_uuid, app.key>>} ELSE {})
                     \cup {<<req.search_uuid, put.key>>}
               /\ req' = [req EXCEPT !.submitted = TRUE, !.resp = "stream",
                                     !.pc = "stream", !.gpc = "context"]
    /\ UNCHANGED <<cfg, quota, db, started, worker, appended, codecVars>>

---------------------------------------------------------------------------
(* generate_stream_response: one action per chunk handed to the caller.  The
   Claude protocol runs the generator of lines 915-956, the OpenAI protocol
   wraps _raw_stream_response (lines 980-985, 733-763).  Every chunk yielded
   is also appended to all_yielded_results. *)

Yield(q, chunk, kind) ==
    [q EXCEPT !.delivered = Append(@, chunk), !.buf = Append(@, chunk),
              !.kinds = Append(@, kind)]

\* an exception inside the generator ends the response body where it stands
Abort(q) == [q EXCEPT !.gpc = "crashed", !.pc = "done"]

\* lines 918-920; lines 981-982 and 734.  The OpenAI wrapper first reads
\* related_questions_future, which is an unassigned free variable when the
\* related questions were skipped (NameError).
GenContext ==
    /\ req.pc = "stream"
    /\ req.gpc = "context"
    /\ req' = IF ~cfg.claude /\ req.rqf = "unbound" THEN Abort(req)
              ELSE [Yield(req, json_dumps(req.contexts), "context") EXCEPT
                        !.gpc = "marker1"]
    /\ UNCHANGED <<cfg, quota, db, started, access, poolVars, appended, codecVars>>

\* lines 921-922; line 735
GenMarker1 ==
    /\ req.pc = "stream"
    /\ req.gpc = "marker1"
    /\ req' = [Yield(req, MARKER1_CHUNK, "marker1") EXCEPT
                  !.gpc = IF ~Truthy(req.contexts) THEN "warning"
                          ELSE IF cfg.claude THEN "open" ELSE "tokens"]
    /\ UNCHANGED <<cfg, quota, db, started, access, poolVars, appended, codecVars>>

\* lines 925-928; lines 737-742
GenWarning ==
    /\ req.pc = "stream"
    /\ req.gpc = "warning"
    /\ req' = [Yield(req, WARNING_CHUNK, "warning") EXCEPT
                  !.gpc = IF cfg.claude THEN "open" ELSE "tokens"]
    /\ UNCHANGED <<cfg, quota, db, started, access, poolVars, appended, codecVars>>

\* lines 929-937 (Claude protocol): reading related_questions_future raises
\* NameError when it was never assigned; otherwise the related-questions task
\* is created and client.messages.stream is opened, which may fail
GenOpen ==
    /\ req.pc = "stream"
    /\ req.gpc = "open"
    /\ IF req.rqf = "unbound"
       THEN req' = Abort(req)
       ELSE \E ok \in BOOLEAN :
            req' = [req EXCEPT !.rqf = "task", !.related_calls = @ + 1,
                               !.generations = @ + 1,
                               !.gpc = IF ok THEN "tokens" ELSE "crashed",
                               !.pc = IF ok THEN "stream" ELSE "done"]
    /\ UNCHANGED <<cfg, quota, db, started, access, poolVars, appended, codecVars>>

\* lines 938-940; lines 746-752: the next token of the answer
GenToken ==
    /\ req.pc = "stream"
    /\ req.gpc = "tokens"
    /\ req.ntok < MaxTokens
    /\ \E text \in AnswerTokens :
        req' = [Yield(req, text, "token") EXCEPT !.ntok = @ + 1]
    /\ UNCHANGED <<cfg, quota, db, started, access, poolVars, appended, codecVars>>

\* the generation backend fails while the answer is streamed
GenFail ==
    /\ req.pc = "stream"
    /\ req.gpc = "tokens"
    /\ req' = Abort(req)
    /\ UNCHANGED <<cfg, quota, db, started, access, poolVars, appended, codecVars>>

\* variant: the second marker is not yielded
GenMarker2Forgotten ==
    /\ req.pc = "stream"
    /\ req.gpc = "tokens"
    /\ \E related \in RelatedOutcomes \cup (IF cfg.claude THEN {} ELSE {None}) :
        req' = [req EXCEPT
                   !.rq = related,
                   !.related_calls = IF req.rqf = "coroutine" THEN @ + 1 ELSE @,
                   !.rqf = "awaited",
                   !.gpc = "related"]
    /\ UNCHANGED <<cfg, quota, db, started, access, poolVars, appended, codecVars>>

\* lines 944-950; lines 755-762: the answer stream is exhausted, the related
\* questions are awaited (the OpenAI protocol starts the coroutine only here)
\* and the second marker is yielded
GenMarker2 ==
    /\ req.pc = "stream"
    /\ req.gpc = "tokens"
    /\ \E related \in RelatedOutcomes \cup (IF cfg.claude THEN {} ELSE {None}) :
        req' = [Yield(req, MARKER2_CHUNK, "marker2") EXCEPT
                   !.rq = related,
                   !.related_calls = IF req.rqf = "coroutine" THEN @ + 1 ELSE @,
                   !.rqf = "awaited",
                   !.gpc = "related"]
    /\ UNCHANGED <<cfg, quota, db, started, access, poolVars, appended, codecVars>>

\* lines 952-953; line 763
GenRelated ==
    /\ req.pc = "stream"
    /\ req.gpc = "related"
    /\ req' = [Yield(req, json_dumps(req.rq), "related") EXCEPT
                  !.gpc = "end", !.pc = "done"]
    /\ UNCHANGED <<cfg, quota, db, started, access, poolVars, appended, codecVars>>

Next ==
    \/ Receive
    \/ LookupHistory
    \/ LookupRecordH
    \/ LookupRecord
    \/ Search
    \/ Dispatch
    \/ Persist
    \/ GenContext
    \/ GenMarker1
    \/ GenWarning
    \/ GenOpen
    \/ GenToken
    \/ GenFail
    \/ GenMarker2
    \/ GenRelated
    \/ \E w \in Workers : WorkerTake(w)
    \/ \E w \in Workers : PutStep(w)
    \/ \E w \in Workers : AppendRead(w)
    \/ \E w \in Workers : AppendStore(w)
    \/ \E w \in Workers : AppendSlice(w)
    \/ \E w \in Workers : AppendWrite(w)

Spec == Init /\ [][Next]_vars

\* the same service receiving one request more, on a pool with one thread
\* more: what the jobs of one request do to the next and to each other
InitPair ==
    /\ cfg \in Configs
    /\ db \in InitialStores
    /\ req = NewRequest
    /\ started = 0
    /\ quota = MaxRequests + 1
    /\ pending = <<>>
    /\ worker = Pool(MaxWorkers + 1)
    /\ access = {}
    /\ appended = 0
    /\ cin = [kind |-> "none"]
    /\ ctext = <<>>
    /\ cout = NotDecoded
    /\ cpc = "unused"

SpecPair == InitPair /\ [][Next]_vars

\* stores in which the History of session "s" is there and the lookup of its
\* SessionRecord fails: the record was never stored, or its row is unreadable
HistoryOnlyDb == [SeededDb EXCEPT !["s"] = Missing]
CorruptRecordDb == [SeededDb EXCEPT !["s"] = Corrupt]
\* and a store in which the row of the History itself is unreadable
CorruptHistoryDb == [SeededDb EXCEPT !["s_history"] = Corrupt]
FaultyStores == {HistoryOnlyDb, CorruptRecordDb, CorruptHistoryDb}

InitFaulty ==
    /\ cfg \in Configs
    /\ db \in FaultyStores
    /\ req = NewRequest
    /\ started = 0
    /\ quota = MaxRequests
    /\ pending = <<>>
    /\ worker = Pool(MaxWorkers)
    /\ access = {}
    /\ appended = 0
    /\ cin = [kind |-> "none"]
    /\ ctext = <<>>
    /\ cout = NotDecoded
    /\ cpc = "unused"

SpecFaulty == InitFaulty /\ [][Next]_vars

\* the service as callers with marked queries drive it
NextMarked ==
    \/ ReceiveMarked
    \/ LookupHistory
    \/ LookupRecordH
    \/ LookupRecord
    \/ Search
    \/ Dispatch
    \/ Persist
    \/ GenContext
    \/ GenMarker1
    \/ GenWarning
    \/ GenOpen
    \/ GenToken
    \/ GenFail
    \/ GenMarker2
    \/ GenRelated
    \/ \E w \in Workers : WorkerTake(w)
    \/ \E w \in Workers : PutStep(w)
    \/ \E w \in Workers : AppendRead(w)
    \/ \E w \in Workers : AppendStore(w)
    \/ \E w \in Workers : AppendSlice(w)
    \/ \E w \in Workers : AppendWrite(w)

SpecMarked == Init /\ [][NextMarked]_vars

SpecMarkedPair == InitPair /\ [][NextMarked]_vars

\* stores in which session "s" has a History of two Turns: both decoded, or
\* one of them a Turn of which nothing was decoded (lines 995-1004 on a text
\* without the first marker)
FullTurn(query) == Turn(PyStr(query), PyList(<<Ctx1>>), PyStr(<<"x">>), PyList(<<Rel1>>))
EmptyTurn(query) == Turn(PyStr(query), None, None, None)
HistoryDb(turns) ==
    [k \in Keys |->
        IF k = "s" THEN Dict(turns[Len(turns)].query, PyStr(SeededTranscript))
        ELSE IF k = HistoryKey("s") THEN PyList(turns)
        ELSE Missing]
HistoryStores ==
    {HistoryDb(<<FullTurn(<<"a">>), FullTurn(<<"b">>)>>),
     HistoryDb(<<EmptyTurn(<<"a">>), FullTurn(<<"b">>)>>),
     HistoryDb(<<FullTurn(<<"a">>), EmptyTurn(<<"b">>)>>)}

InitHistories ==
    /\ cfg \in Configs
    /\ db \in HistoryStores
    /\ req = NewRequest
    /\ started = 0
    /\ quota = MaxRequests
    /\ pending = <<>>
    /\ worker = Pool(MaxWorkers)
    /\ access = {}
    /\ appended = 0
    /\ cin = [kind |-> "none"]
    /\ ctext = <<>>
    /\ cout = NotDecoded
    /\ cpc = "unused"

SpecHistories == InitHistories /\ [][Next]_vars

---------------------------------------------------------------------------
(* get_related_questions (lines 566-722) as a function of what the backend
   answers.  A str the backend sends is kept together with what json.loads
   makes of it. *)

MaxQuestions == 6     \* questions in one backend answer
MaxBlocks    == 2     \* content blocks, tool calls or text lines in one answer
RELATED_LIMIT == 5    \* the slice [:5]

Question(i) == <<"q" \o ToString(i)>>
Questions(n) == PyList([i \in 1..n |-> Question(i)])
Encoded(value) == [t |-> "str", v |-> <<"json">>, loads |-> value]
Garbled == [t |-> "str", v |-> <<"oops">>, loads |-> JSONDecodeError]
\* {"questions": questions}, Missing for an object without that key
Arguments(questions) == [t |-> "object", questions |-> questions]
BackendError == [t |-> "Exception"]

\* isinstance(x, str) and json.loads(x)
Loaded(x) == IF x.t = "str" /\ "loads" \in DOMAIN x THEN x.loads ELSE x

\* [{"question": question} for question in related[:5]]; anything that cannot
\* be sliced raises TypeError
QuestionObjects(related) ==
    IF related.t # "list" THEN BackendError
    ELSE PyList([i \in 1..(IF Len(related.v) < RELATED_LIMIT THEN Len(related.v)
                           ELSE RELATED_LIMIT) |-> [question |-> related.v[i]]])

\* lines 608-634
ClaudeRelated(response) ==
    LET content == response.content
        hits == {i \in 1..Len(content) :
                    /\ content[i].type = "tool_use"
                    /\ content[i].name = "ask_related_questions"}
        first == CHOOSE i \in hits : \A j \in hits : i <= j
        related == IF hits = {} THEN PyList(<<>>) ELSE content[first].questions
        decoded == IF Truthy(related) THEN Loaded(related) ELSE related
    IN IF related = Missing THEN BackendError            \* KeyError
       ELSE IF decoded = JSONDecodeError THEN PyList(<<>>)   \* line 632
       ELSE QuestionObjects(decoded)

\* str.split('\n')
RECURSIVE SplitLines(_)
SplitLines(text) ==
    LET i == Find(text, "nl", 1)
    IN IF i = 0 THEN <<text>>
       ELSE <<SubSeq(text, 1, i - 1)>> \o SplitLines(SubSeq(text, i + 1, Len(text)))

\* lines 697-707: a numbered line without its number and its quotes.  The
\* symbols "1.", "2.", "3." are two characters, every other symbol is one, so
\* question[3:] drops the number and the symbol after it.
CleanQuestion(line) ==
    LET question == Strip(SubSeq(line, 3, Len(line)))
        opens == question # <<>> /\ Head(question) = "dq"
        closes == question # <<>> /\ question[Len(question)] = "dq"
    IN IF opens /\ closes THEN SubSeq(question, 2, Len(question) - 1)
       ELSE IF opens THEN Tail(question)
       ELSE IF closes THEN SubSeq(question, 1, Len(question) - 1)
       ELSE question

\* lines 687-710
ContentQuestions(content) ==
    LET lines == SelectSeq([i \in DOMAIN SplitLines(content) |->
                               Strip(SplitLines(content)[i])],
                           LAMBDA l : l # <<>>)
        numbered == SelectSeq(lines, LAMBDA l : Head(l) \in {"1.", "2.", "3."})
    IN PyList([i \in DOMAIN numbered |-> CleanQuestion(numbered[i])])

\* lines 676-711; falling off the end of the function returns None
OpenAIRelated(response) ==
    IF response.choices = <<>> \/ response.choices[1].message = None THEN None
    ELSE LET message == response.choices[1].message
         IN IF message.tool_calls # <<>>
            THEN LET related == Loaded(message.tool_calls[1])
                 IN IF related = JSONDecodeError \/ related.t # "object"
                       \/ related.questions = Missing
                    THEN BackendError
                    ELSE QuestionObjects(related.questions)
            ELSE IF Truthy(message.content)
            THEN QuestionObjects(ContentQuestions(message.content.v))
            ELSE None

\* lines 566-722: every exception is answered with []
get_related_questions(response) ==
    LET returned == IF response = BackendError THEN BackendError
                    ELSE IF cfg.claude THEN ClaudeRelated(response)
                    ELSE OpenAIRelated(response)
    IN IF returned = BackendError THEN PyList(<<>>) ELSE returned

\* what a backend may answer
QuestionValues ==
    {Questions(n) : n \in 0..MaxQuestions}
        \cup {Encoded(Questions(1)), Encoded(Questions(MaxQuestions)),
              Encoded(Arguments(Questions(1))), Encoded(None), Garbled, None, Missing}
ClaudeBlocks ==
    {[type |-> "text", name |-> "", questions |-> Missing],
     [type |-> "tool_use", name |-> "other", questions |-> Questions(1)]}
        \cup {[type |-> "tool_use", name |-> "ask_related_questions", questions |-> v] :
                v \in QuestionValues}
ClaudeResponses ==
    {BackendError}
        \cup {[t |-> "message", content |-> c] :
                c \in UNION {[1..n -> ClaudeBlocks] : n \in 0..MaxBlocks}}

ToolArguments ==
    {Arguments(v) : v \in QuestionValues}
        \cup {Encoded(Arguments(v)) : v \in QuestionValues}
        \cup {Garbled, Encoded(Questions(1)), Encoded(None)}
NumberedLine(i) ==
    <<(IF i % 3 = 1 THEN "1." ELSE IF i % 3 = 2 THEN "2." ELSE "3."), "sp">> \o Question(i)
RECURSIVE NumberedText(_)
NumberedText(n) ==
    IF n = 0 THEN <<>>
    ELSE IF n = 1 THEN NumberedLine(1)
    ELSE NumberedText(n - 1) \o <<"nl">> \o NumberedLine(n)
TextLines ==
    {<<"intro">>, <<"sp">>, <<"4.", "sp", "q">>, <<"1.", "sp", "q">>,
     <<"sp", "2.", "sp", "dq", "q", "dq">>, <<"3.", "sp", "dq", "q">>,
     <<"1.", "sp", "q", "dq", "sp">>}
RECURSIVE JoinLines(_)
JoinLines(lines) ==
    IF lines = <<>> THEN <<>>
    ELSE IF Len(lines) = 1 THEN lines[1]
    ELSE lines[1] \o <<"nl">> \o JoinLines(Tail(lines))
Contents ==
    {None, PyStr(<<>>)}
        \cup {PyStr(NumberedText(n)) : n \in 1..MaxQuestions}
        \cup {PyStr(JoinLines(l)) : l \in UNION {[1..n -> TextLines] : n \in 1..MaxBlocks}}
OpenAIMessages ==
    {None}
        \cup {[tool_calls |-> <<a>>, content |-> None] : a \in ToolArguments}
        \cup {[tool_calls |-> <<>>, content |-> c] : c \in Contents}
OpenAIResponses ==
    {BackendError, [t |-> "completion", choices |-> <<>>]}
        \cup {[t |-> "completion", choices |-> <<[message |-> m]>>] : m \in OpenAIMessages}

RelatedInit ==
    /\ cfg \in {c \in Configs : c.related /\ ~c.history}
    /\ cin = [kind |-> "none"]
    /\ ctext = <<>>
    /\ cout = NotDecoded
    /\ cpc = "asking"
    /\ db = EmptyDb
    /\ req = NewRequest
    /\ started = 0
    /\ quota = 0
    /\ pending = <<>>
    /\ worker = Pool(MaxWorkers)
    /\ access = {}
    /\ appended = 0

\* the awaited backend call of line 608 or 677 ends
RelatedAnswer ==
    /\ cpc = "asking"
    /\ \E response \in (IF cfg.claude THEN ClaudeResponses ELSE OpenAIResponses) :
        cin' = [kind |-> "response", response |-> response]
    /\ cpc' = "answered"
    /\ UNCHANGED <<ctext, cout, db, mainVars, poolVars, appended>>

\* the rest of get_related_questions
RelatedReturn ==
    /\ cpc = "answered"
    /\ cout' = get_related_questions(cin.response)
    /\ cpc' = "returned"
    /\ UNCHANGED <<cin, ctext, db, mainVars, poolVars, appended>>

RelatedNext == RelatedAnswer \/ RelatedReturn

SpecRelated == RelatedInit /\ [][RelatedNext]_vars

---------------------------------------------------------------------------
(* Codec driver: encodes a (contexts, answer tokens, related questions)
   triple with _raw_stream_response, or takes a raw text, and decodes the
   concatenation with extract_all_sections. *)

CodecContexts == {PyList(<<>>), PyList(<<Ctx1>>), PyList(<<CtxM>>), PyList(<<Ctx2, Ctx1>>)}
CodecTokens   == {<<>>, <<"x">>, <<"nl">>, <<"x", "sp">>, <<M1>>, <<M2>>}
CodecRelated  == {Unbound, None, PyList(<<>>), PyList(<<Rel1>>)}
RawSymbols    == {"x", "nl", M1, M2}

SeqsUpTo(S, n) == UNION {[1..k -> S] : k \in 0..n}

CodecInputs ==
    [kind : {"encode"}, contexts : CodecContexts,
     tokens : SeqsUpTo(CodecTokens, MaxTokens), rq : CodecRelated]
    \cup [kind : {"raw"}, text : SeqsUpTo(RawSymbols, MaxTextLen)]

CodecInit ==
    /\ cin \in CodecInputs
    /\ ctext = <<>>
    /\ cout = NotDecoded
    /\ cpc = "input"
    /\ cfg = NoConfig
    /\ db = EmptyDb
    /\ req = NewRequest
    /\ started = 0
    /\ quota = 0
    /\ pending = <<>>
    /\ worker = Pool(MaxWorkers)
    /\ access = {}
    /\ appended = 0

\* "".join of everything _raw_stream_response yields
CodecEncode ==
    /\ cpc = "input"
    /\ cin.kind = "encode"
    /\ ctext' = Join(RawStreamChunks(cin.contexts, cin.tokens, cin.rq))
    /\ cpc' = "text"
    /\ UNCHANGED <<cin, cout, db, mainVars, poolVars, appended>>

\* an arbitrary stored blob
CodecLoad ==
    /\ cpc = "input"
    /\ cin.kind = "raw"
    /\ ctext' = cin.text
    /\ cpc' = "text"
    /\ UNCHANGED <<cin, cout, db, mainVars, poolVars, appended>>

CodecDecode ==
    /\ cpc = "text"
    /\ cout' = extract_all_sections(ctext)
    /\ cpc' = "decoded"
    /\ UNCHANGED <<cin, ctext, db, mainVars, poolVars, appended>>

CodecNext == CodecEncode \/ CodecLoad \/ CodecDecode

SpecCodec == CodecInit /\ [][CodecNext]_vars

---------------------------------------------------------------------------
(* KV driver: a caller that issues KVWrapper.append calls one after the
   other, each run by a thread of a pool of MaxWorkers + 1 threads. *)

KVKeys == {HistoryKey("s"), HistoryKey("s_history")}

Item(n) == [t |-> "item", n |-> n]

KVInit ==
    /\ db = EmptyDb
    /\ pending = <<>>
    /\ worker = Pool(MaxWorkers + 1)
    /\ appended = 0
    /\ cfg = NoConfig
    /\ req = NewRequest
    /\ started = 0
    /\ quota = 0
    /\ access = {}
    /\ cin = [kind |-> "none"]
    /\ ctext = <<>>
    /\ cout = NotDecoded
    /\ cpc = "unused"

\* the next call is made when the previous one has returned
KVCallAppend(key) ==
    /\ appended < MaxAppends
    /\ PoolIdle
    /\ pending' = Append(pending, Job("append", key, Item(appended + 1), 0))
    /\ appended' = appended + 1
    /\ UNCHANGED <<db, worker, mainVars, codecVars>>

KVNext ==
    \/ \E key \in KVKeys : KVCallAppend(key)
    \/ \E w \in Workers : WorkerTake(w)
    \/ \E w \in Workers : AppendRead(w)
    \/ \E w \in Workers : AppendStore(w)
    \/ \E w \in Workers : AppendSlice(w)
    \/ \E w \in Workers : AppendWrite(w)

SpecKV == KVInit /\ [][KVNext]_vars

\* a caller that submits append jobs without waiting for the earlier ones, as
\* requests do at lines 1005-1011
KVSubmitAppend(key) ==
    /\ appended < MaxSubmits
    /\ pending' = Append(pending, Job("append", key, Item(appended + 1), 0))
    /\ appended' = appended + 1
    /\ UNCHANGED <<db, worker, mainVars, codecVars>>

KVPoolNext ==
    \/ \E key \in KVKeys : KVSubmitAppend(key)
    \/ \E w \in Workers : WorkerTake(w)
    \/ \E w \in Workers : AppendRead(w)
    \/ \E w \in Workers : AppendStore(w)
    \/ \E w \in Workers : AppendSlice(w)
    \/ \E w \in Workers : AppendWrite(w)

SpecKVPool == KVInit /\ [][KVPoolNext]_vars

---------------------------------------------------------------------------
(* Prompt driver: the system prompt of lines 890-895 for context lists of
   every length up to MaxContexts. *)

CtxE == [snippet |-> <<>>]

PromptInputs ==
    {[kind |-> "contexts", contexts |-> PyList(c)] :
        c \in SeqsUpTo({Ctx1, Ctx2, CtxM, CtxE}, MaxContexts)}

PromptInit ==
    /\ cin \in PromptInputs
    /\ ctext = <<>>
    /\ cout = NotDecoded
    /\ cpc = "input"
    /\ cfg = NoConfig
    /\ db = EmptyDb
    /\ req = NewRequest
    /\ started = 0
    /\ quota = 0
    /\ pending = <<>>
    /\ worker = Pool(MaxWorkers)
    /\ access = {}
    /\ appended = 0

PromptBuild ==
    /\ cpc = "input"
    /\ ctext' = SystemPrompt(cin.contexts)
    /\ cpc' = "built"
    /\ UNCHANGED <<cin, cout, db, mainVars, poolVars, appended>>

PromptNext == PromptBuild

SpecPrompt == PromptInit /\ [][PromptNext]_vars

---------------------------------------------------------------------------
(* Claims about the codec and the store wrapper *)

\* C4 (as claimed): after any sequence of KVWrapper.append calls on one key
\* the stored sequence has at most MAX_HISTORY_LEN turns.
C4_HistoryCap ==
    \A k \in Keys : db[k].t = "list" => Len(db[k].v) <= MAX_HISTORY_LEN

FirstMarkerOnly(text) ==
    /\ Contains(text, M1)
    /\ ~Contains(SubSeq(text, Find(text, M1, 1) + 1, Len(text)), M2)

CodecAnswer == Join(cin.tokens)

CodecTriple ==
    [search_results |-> PyStr(json_dumps(cin.contexts)),
     llm_response |-> PyStr(CodecAnswer),
     related_questions |-> PyStr(json_dumps(cin.rq))]

\* C5 (as claimed): decoding the encoder's stream for any contexts C, answer A
\* and related-questions list R recovers exactly (json(C), A, json(R)).
C5_RoundTripAny ==
    (cpc = "decoded" /\ cin.kind = "encode" /\ cin.rq.t = "list")
        => cout = CodecTriple

RoundTripInput ==
    /\ cin.kind = "encode"
    /\ cin.rq.t = "list"
    /\ Truthy(cin.contexts)
    /\ ~Contains(json_dumps(cin.contexts), M1)
    /\ ~Contains(CodecAnswer, M2)
    /\ Strip(CodecAnswer) = CodecAnswer

\* C5 (amended): the round trip holds when C is not empty, json(C) does not
\* contain the first marker, and A neither contains the second marker nor
\* starts or ends with whitespace.
C5_RoundTrip ==
    (cpc = "decoded" /\ RoundTripInput) => cout = CodecTriple

C5_Witness ==
    /\ cpc = "decoded"
    /\ RoundTripInput
    /\ Len(cin.contexts.v) = 2
    /\ Contains(CodecAnswer, M1)
    /\ cin.rq = PyList(<<Rel1>>)
    /\ cout = CodecTriple

\* C6 (as claimed): a transcript with the first marker and no second marker
\* decodes to a related-questions value different from the one decoded from
\* the same transcript followed by the second marker and empty text.
C6_AbsentDistinguishable ==
    (cpc = "decoded" /\ FirstMarkerOnly(ctext))
        => cout.related_questions
             # extract_all_sections(ctext \o <<M2>>).related_questions

\* C6 (amended): a transcript with the first marker and no second marker
\* decodes to the empty string for the related-questions segment, the same
\* value as when the second marker is present and followed by empty text.
C6_AbsentDecodesToEmpty ==
    (cpc = "decoded" /\ FirstMarkerOnly(ctext))
        => /\ cout.related_questions = PyStr(<<>>)
           /\ extract_all_sections(ctext \o <<M2>>).related_questions = PyStr(<<>>)

C6_Witness ==
    /\ cpc = "decoded"
    /\ cin.kind = "encode"
    /\ cin.rq = Unbound
    /\ FirstMarkerOnly(ctext)
    /\ cout.llm_response = PyStr(<<"x">>)
    /\ cout.related_questions = PyStr(<<>>)

\* C7: a text without the first marker (the empty text and texts holding only
\* the second marker included) decodes to (None, None, None).
C7_NoFirstMarkerAllAbsent ==
    (cpc = "decoded" /\ ~Contains(ctext, M1)) => cout = AllNone

C7_Witness ==
    /\ cpc = "decoded"
    /\ ~Contains(ctext, M1)
    /\ Contains(ctext, M2)
    /\ Len(ctext) = 3
    /\ cout = AllNone

---------------------------------------------------------------------------
(* Claims about the handler *)

Fresh == req.resp = "stream"
StreamComplete == req.gpc = "end"
RelatedSkipped == ~(cfg.related /\ req.grq)

Positions(kind) == {i \in 1..Len(req.kinds) : req.kinds[i] = kind}

\* C1 (as claimed): once a freshly answered request is fully processed (the
\* stream is complete and its jobs have run), the record stored under its
\* search_uuid holds the concatenation of the chunks delivered.
C1_RecordIsTranscript ==
    (Fresh /\ StreamComplete /\ PoolIdle /\ started = 1)
        => db[req.search_uuid] = Dict(req.query, PyStr(Join(req.delivered)))

\* C2 (as claimed): the append and the put of a request are issued only after
\* the last chunk of its stream has been produced.
C2_WritesAfterStream ==
    req.submitted => req.gpc \in {"end", "crashed"}

\* C3: with history mode off, a lookup that finds a record whose query equals
\* the incoming query answers with the record's txt, unchanged, and the request
\* has made no search, no generation and no related-questions call.
C3_ReplayVerbatim ==
    [][(/\ req.pc = "lookup_record"
        /\ req' # req
        /\ db[req.search_uuid].t = "dict"
        /\ db[req.search_uuid].query = req.query)
       => (/\ req'.pc = "done"
           /\ req'.resp = "replay"
           /\ req'.body = db[req.search_uuid].txt
           /\ req'.delivered = <<>>
           /\ req'.searches = 0
           /\ req'.generations = 0
           /\ req'.related_calls = 0)]_vars

C3_Witness ==
    /\ ~cfg.history
    /\ req.resp = "replay"
    /\ req.search_uuid = "s"
    /\ req.body = PyStr(SeededTranscript)
    /\ db["s"].txt = req.body
    /\ req.searches = 0

\* C8: in the stream of a fresh response the context JSON comes first, the
\* first marker is yielded once and before every answer token, every answer
\* token comes before the second marker, and the second marker is yielded at
\* most once and is directly followed by the related-questions JSON.
C8_StreamOrder ==
    LET k == req.kinds
        d == req.delivered
        n == Len(req.kinds)
    IN /\ Len(d) = n
       /\ n >= 1 => k[1] = "context" /\ d[1] = json_dumps(req.contexts)
       /\ Positions("context") \subseteq {1}
       /\ Cardinality(Positions("marker1")) <= 1
       /\ \A i \in Positions("marker1") : d[i] = MARKER1_CHUNK
       /\ \A i \in Positions("token") \cup Positions("warning") :
            \E j \in Positions("marker1") : j < i
       /\ \A i \in Positions("token") : \A j \in Positions("marker2") : i < j
       /\ Cardinality(Positions("marker2")) <= 1
       /\ \A i \in Positions("marker2") :
            /\ d[i] = MARKER2_CHUNK
            /\ IF i < n THEN k[i + 1] = "related" ELSE req.gpc = "related"
       /\ \A i \in Positions("related") :
            /\ i - 1 \in Positions("marker2")
            /\ i = n
            /\ d[i] = json_dumps(req.rq)
       /\ StreamComplete => Cardinality(Positions("marker1")) = 1

C8_Witness ==
    /\ Fresh
    /\ StreamComplete
    /\ req.kinds = <<"context", "marker1", "token", "marker2", "related">>
    /\ req.delivered[5] = json_dumps(PyList(<<Rel1>>))

\* C9 (as claimed): when the related questions are skipped, the stream delivers
\* the context JSON, the first marker and the complete answer, and ends
\* without a second marker or related-questions segment.
C9_SkippedStillAnswers ==
    (Fresh /\ req.pc = "done" /\ RelatedSkipped)
        => /\ StreamComplete
           /\ Len(req.kinds) >= 2
           /\ req.kinds[1] = "context"
           /\ req.kinds[2] = "marker1"
           /\ Positions("marker2") = {}
           /\ Positions("related") = {}

\* C10 (as claimed): the store keys used for one search_uuid are disjoint from
\* the keys used for any other search_uuid.
C10_DisjointKeys ==
    \A a \in access : \A b \in access : a[1] # b[1] => a[2] # b[2]

---------------------------------------------------------------------------
(* Claims about concurrent use of the store *)

Stored(key) == IF db[key].t = "list" THEN {db[key].v[i] : i \in 1..Len(db[key].v)} ELSE {}

\* C11 (as claimed): when appends run concurrently on the pool, with fewer
\* items than the cap stored, every appended item is in the stored sequence
\* of some key once every append has returned.
C11_NoLostAppend ==
    PoolIdle => \A n \in 1..appended : \E key \in KVKeys : Item(n) \in Stored(key)

\* C12: every put stores the {query, txt} pair of its own job whole, or fails
\* and leaves the store as it was, whatever the jobs of other requests are
\* doing; the record under a key is the pair of the put that ran last.
C12_LastPutWins ==
    [][\A w \in Workers :
         (worker[w].pc = "put" /\ worker'[w] = Idle)
            => /\ worker[w].job.value.t = "dict"
               /\ db' \in {db, kv_set(db, worker[w].job.key, worker[w].job.value)}]_vars

\* the puts of two requests for one session were running at once; the first
\* has stored its pair and the second is about to overwrite it
C12_Witness ==
    /\ started = 2
    /\ \A a \in access : a[1] = "s"
    /\ worker[2].pc = "put"
    /\ worker[2].job.key = "s"
    /\ worker[1] = Idle
    /\ pending = <<>>
    /\ ~cfg.history
    /\ db["s"] = Dict(PyStr(<<"a">>), PyStr(<<>>))
    /\ worker[2].job.value = Dict(PyStr(<<"b">>), PyStr(<<>>))

---------------------------------------------------------------------------
(* Claims about empty and failed searches and generations *)

\* C13 (as claimed): when the search returns an empty list, the generation
\* backend is still invoked and the chunk delivered right after the first
\* marker is the disclaimer.
C13_EmptySearchDisclaimer ==
    (Fresh /\ req.pc = "done" /\ req.searches = 1 /\ req.contexts = PyList(<<>>))
        => /\ req.generations >= 1
           /\ \E i \in Positions("marker1") :
                /\ i < Len(req.kinds)
                /\ req.kinds[i + 1] = "warning"
                /\ req.delivered[i + 1] = WARNING_CHUNK

\* C14 (as claimed): a failure of the search provider degrades to an empty
\* context list; a request that has called the search function goes on to
\* generation and never ends in an error raised by the search.
C14_SearchFailureDegrades ==
    (req.pc = "done" /\ req.searches >= 1) => req.resp # "exception"

\* the generation backend failed: the OpenAI create() call (503 body), the
\* opening of the Claude stream, or the token stream of either protocol
GenerationFailed ==
    \/ req.resp = "error503"
    \/ req.gpc = "crashed" /\ req.rqf # "unbound"

\* C15 (as claimed): when the generation backend fails, for either protocol,
\* the caller receives the structured server-error response, not streamed.
C15_GenerationFailureIsError ==
    (req.pc = "done" /\ GenerationFailed)
        => req.resp = "error503" /\ req.delivered = <<>>

C17_PersistenceFailureUnseen ==
    [][(worker' # worker \/ db' # db) => req' = req]_vars

\* the whole stream was delivered although the put of the request failed
C17_Witness ==
    /\ started = 1
    /\ req.submitted
    /\ PoolIdle
    /\ req.search_uuid = "s"
    /\ db["s"] = Missing
    /\ StreamComplete
    /\ req.kinds = <<"context", "marker1", "token", "marker2", "related">>

---------------------------------------------------------------------------
(* Claims about validation, the prompt and the history check *)

\* C18: a request without a query or without a search_uuid is rejected at
\* once with an error: receiving it makes no store lookup, no search, no
\* generation or related-questions call and submits no store write.
C18_RejectWithoutCalls ==
    [][(started' # started /\ (~Truthy(req'.query) \/ req'.search_uuid = NoUuid))
        => /\ req'.pc = "done"
           /\ req'.resp = "exception"
           /\ req'.searches = 0
           /\ req'.generations = 0
           /\ req'.related_calls = 0
           /\ ~req'.submitted
           /\ req'.delivered = <<>>
           /\ access' = access
           /\ pending' = pending
           /\ db' = db]_vars

C18_Witness ==
    /\ started = 1
    /\ Truthy(req.query)
    /\ req.search_uuid = NoUuid
    /\ req.pc = "done"
    /\ req.resp = "exception"
    /\ access = {}
    /\ PoolIdle

Marker(i) == "[[citation:" \o ToString(i) \o "]]"
IsMarker(c) == \E i \in 0..(MaxContexts + 2) : c = Marker(i)

\* C19: for a context list of length K the system prompt holds exactly the
\* markers [[citation:1]] .. [[citation:K]], in this order, each followed by
\* a space and the snippet of its item.
C19_PromptCitations ==
    cpc = "built" =>
        LET ctxs == cin.contexts.v
            K == Len(ctxs)
        IN /\ SelectSeq(ctext, IsMarker) = [i \in 1..K |-> Marker(i)]
           /\ \A i \in 1..K :
                LET at == Find(ctext, Marker(i), 1)
                IN /\ at # 0
                   /\ at + 1 + Len(ctxs[i].snippet) <= Len(ctext)
                   /\ ctext[at + 1] = "sp"
                   /\ SubSeq(ctext, at + 2, at + 1 + Len(ctxs[i].snippet)) = ctxs[i].snippet

C19_Witness ==
    /\ cpc = "built"
    /\ cin.contexts = PyList(<<Ctx2, CtxE, Ctx1>>)
    /\ Find(ctext, Marker(3), 1) > Find(ctext, Marker(2), 1)
    /\ Find(ctext, Marker(2), 1) > Find(ctext, Marker(1), 1)
    /\ Find(ctext, Marker(1), 1) > 0

\* C20 (as claimed): with history mode on, a request whose query is identical
\* to the query of the most recent Turn of its session's History is answered
\* with the stored txt and makes no search and no generation.
C20_HistoryReplay ==
    (/\ cfg.history
     /\ started >= 1
     /\ req.pc \notin {"lookup_history", "lookup_record_h"}
     /\ req.history.t = "list"
     /\ req.history.v # <<>>
     /\ req.history.v[Len(req.history.v)].query = req.query)
        => /\ req.resp = "replay"
           /\ req.body = req.result.txt
           /\ req.searches = 0
           /\ req.generations = 0

---------------------------------------------------------------------------
(* Claims about the History and its reuse *)

LastTurn(key) == db[key].v[Len(db[key].v)]

\* C21 (as claimed): with history mode on, once a freshly answered request is
\* fully processed, the Turn appended to its History holds the request's
\* query, the context list delivered and the answer text delivered.
C21_TurnIsTranscript ==
    (/\ cfg.history
     /\ Fresh
     /\ StreamComplete
     /\ PoolIdle
     /\ started = 1
     /\ db[HistoryKey(req.search_uuid)].t = "list"
     /\ db[HistoryKey(req.search_uuid)].v # <<>>)
        => LET turn == LastTurn(HistoryKey(req.search_uuid))
               sent == extract_all_sections(Join(req.delivered))
           IN /\ turn.query = req.query
              /\ turn.search_results = req.contexts
              /\ turn.llm_response = sent.llm_response

\* the branch of lines 840-851 that carries the History forward
Reuses(q) ==
    /\ cfg.history
    /\ q.history.t = "list"
    /\ q.history.v # <<>>
    /\ LET last_entry == q.history.v[Len(q.history.v)]
       IN /\ Truthy(last_entry.query)
          /\ Truthy(last_entry.search_results)
          /\ last_entry.query # q.query

\* C22: in history mode a request whose query differs from the query of the
\* last Turn, that Turn holding a query and search results, takes the stored
\* search results as its context and makes no search call; every other request
\* that reaches the search step calls the search function once, with the
\* query stripped of its markers, and no later step searches again.
C22_ReuseOrSearchOnce ==
    [][/\ ((req.pc = "search" /\ req' # req) =>
            (/\ req'.query = PyStr(Sanitize(req.query.v))
             /\ IF Reuses(req)
                THEN /\ req'.searches = 0
                     /\ req'.contexts =
                           req.history.v[Len(req.history.v)].search_results
                ELSE req'.searches = 1))
       /\ ((req.pc \notin {"search", "idle", "done"}) =>
            (req'.searches = req.searches))]_vars

C22_Witness ==
    /\ cfg.history
    /\ req.pc = "dispatch"
    /\ req.searches = 0
    /\ req.query = PyStr(<<"a">>)
    /\ req.contexts = PyList(<<Ctx1>>)
    /\ req.chat_history # <<>>

\* the request carries its History forward and its messages are built
Carried == Reuses(req) /\ req.messages # <<>>

\* the messages one user and one assistant message per Turn of the History,
\* oldest first, and then the new query
TurnsThenQuery(messages) ==
    LET turns == req.history.v
    IN /\ Len(messages) = 2 * Len(turns) + 1
       /\ \A i \in 1..Len(turns) :
            /\ messages[2 * i - 1] = Message("user", turns[i].query)
            /\ messages[2 * i] = Message("assistant", turns[i].llm_response)
       /\ messages[Len(messages)] = Message("user", req.query)

RECURSIVE Decoded(_)
Decoded(turns) ==
    IF turns = <<>> THEN <<>>
    ELSE (IF Head(turns).llm_response = None THEN <<>> ELSE <<Head(turns)>>)
         \o Decoded(Tail(turns))

C25_EmptiedQueryRejected ==
    /\ (req.searches + req.generations > 0) => Truthy(req.query)
    /\ (req.query.t = "str" /\ Sanitize(req.query.v) = <<>>) =>
            /\ req.pc \notin {"dispatch", "persist", "stream"}
            /\ (req.pc = "done") => (req.resp = "exception")

\* C26 (as claimed): when related questions are generated for a request, the
\* related-questions backend call is under way while the answer is streamed,
\* for both protocols.
C26_RelatedStartedWithAnswer ==
    (/\ req.pc = "stream"
     /\ req.gpc = "tokens"
     /\ req.ntok > 0
     /\ req.rqf # "unbound") => req.related_calls = 1

\* C28 (as claimed): with history mode off, once a request for a session and
\* an accepted query has been persisted, the next request for the same session
\* and the same query, markers included, is served by replay.  The record a
\* request persists holds its query without the markers and the text "".
C28_RepeatIsReplayed ==
    [][(/\ ~cfg.history
        /\ req.pc = "lookup_record"
        /\ req' # req
        /\ db[req.search_uuid].t = "dict"
        /\ Sanitize(req.query.v) # <<>>
        /\ db[req.search_uuid].query = PyStr(Sanitize(req.query.v))
        /\ db[req.search_uuid].txt = PyStr(<<>>))
            => req'.resp = "replay"]_vars

\* the jobs submitted by the request in hand, queued or running
OwnJobs ==
    {i \in 1..Len(pending) : pending[i].by = started}
        \cup {w \in Workers : worker[w] # Idle /\ worker[w].job.by = started}

\* C29: a request served by replay, in either mode, leaves the store as it
\* was: it submits no put of the SessionRecord and no append to the History,
\* and the store of a service that has served nothing else is the one it
\* started with.
C29_ReplayWritesNothing ==
    (req.resp = "replay") =>
        /\ ~req.submitted
        /\ OwnJobs = {}
        /\ (started = 1) => (db = SeededDb /\ pending = <<>> /\ PoolIdle)

C29_Witness ==
    /\ cfg.history
    /\ req.resp = "replay"
    /\ req.body = PyStr(SeededTranscript)
    /\ db = SeededDb

\* C30: a request answered with the 503 server-error body has written nothing:
\* it submitted no put and no append, and the store of a service that has
\* served nothing else is the one it started with.
C30_ServerErrorWritesNothing ==
    (req.resp = "error503") =>
        /\ ~req.submitted
        /\ OwnJobs = {}
        /\ (started = 1) => (db \in InitialStores /\ pending = <<>> /\ PoolIdle)

C30_Witness ==
    /\ req.resp = "error503"
    /\ req.pc = "done"
    /\ req.generations = 1
    /\ cfg.history
    /\ db = SeededDb

---------------------------------------------------------------------------
(* Claims about get_related_questions *)

\* C27 (as claimed): whatever the backend answers (a tool call, text, neither,
\* no choices, an error, something that does not parse), get_related_questions
\* returns a list of at most five question objects, never a value that is not
\* a list.
C27_AlwaysShortList ==
    (cpc = "returned") =>
        /\ cout.t = "list"
        /\ Len(cout.v) <= RELATED_LIMIT
        /\ \A i \in 1..Len(cout.v) : DOMAIN cout.v[i] = {"question"}

====
